---- MODULE Spec2Model ----
(***************************************************************************)
(* Model of shopify_gql_helper: the ThrottleController (throttle.py) with  *)
(* its concurrent waiters, and the execute retry loop (client.py).         *)
(*                                                                         *)
(* Time is a discrete monotonic clock `now` counted in seconds.  Budget    *)
(* values are integers.  The average cost total_cost / total_calls is kept *)
(* as an exact fraction (num, den), so every comparison the code makes on  *)
(* it is made here by cross-multiplication, without rounding.              *)
(*                                                                         *)
(* A Python optional value is a sequence: <<>> is None, <<v>> is v.        *)
(* A Python dict is a function from its keys.                              *)
(***************************************************************************)
EXTENDS Integers, Sequences, FiniteSets, TLC

\* ---------------------------------------------------------------- bounds
MaxTime == 2
MaxCalls == 1
MaxRetries == 2
MaxPageRetries == 2

\* ------------------------------------------------------ program constants
DefaultAvailable == 1000
DefaultRestoreRate == 100
DefaultMaxAvailable == 2000
DefaultMinSleep == 1
SessionMinBucket == 100
SessionMinSleep == 1
SnippetLimit == 300

\* ------------------------------------------------------------- utilities
Max(a, b) == IF a >= b THEN a ELSE b
Min(a, b) == IF a <= b THEN a ELSE b

None == <<>>
Some(v) == <<v>>
EmptyDict == [k \in {} |-> 0]

\* get gone wrong: an absent key reads as 0, as with dict.get(key, 0)
GetOrZero(d, k) == IF k \in DOMAIN d THEN Some(d[k]) ELSE Some(0)

\* dict.get(key): None when the key is absent
get(d, k) == IF k \in DOMAIN d THEN Some(d[k]) ELSE None

\* truth value of an optional dict: None and {} are both falsy
TruthyDict(od) == od # None /\ DOMAIN od[1] # {}

\* truth value of an optional number: None and 0 are both falsy
TruthyNum(on) == on # None /\ on[1] # 0

\* Python's `a or b`
PyOr(a, b) == IF TruthyNum(a) THEN a ELSE b

\* ---------------------------------------------------------------- threads
Workers == {"w1", "w2"}
Solo == {"w1"}
Callers == {"x1"}
Pagers == {"p1"}
Threads == Workers \cup Callers \cup Pagers

\* ----------------------------------------------------------------- inputs
\* arguments of ThrottleController(restore_rate=...)
CtorRates == {DefaultRestoreRate, 0}
\* values assigned to controller.restore_rate by the owner
AssignedRates == {50, -5}
\* min_bucket / min_sleep arguments of direct before_request calls
MinBuckets == {50}
MinSleeps == {0, -1}
\* throttle_status arguments of direct after_response calls
DirectStatuses ==
    { None,
      Some(EmptyDict),
      Some([currentlyAvailable |-> 0]),
      Some([currentlyAvailable |-> 50]),
      Some([currentlyAvailable |-> -50]),
      Some([restoreRate |-> 0]),
      Some([maximumAvailable |-> 500]),
      Some([currentlyAvailable |-> 900, restoreRate |-> 50, maximumAvailable |-> 1000]) }
\* cost arguments of direct after_response calls
DirectCosts == {None, Some(450), Some(50)}
\* throttle_status arguments of after_response with two threads waiting
WaiterStatuses ==
    { Some([currentlyAvailable |-> 0]),
      Some([currentlyAvailable |-> 50]),
      Some([currentlyAvailable |-> 100]),
      Some([currentlyAvailable |-> 900, restoreRate |-> 50, maximumAvailable |-> 1000]) }
\* cost arguments of after_response with two threads waiting
WaiterCosts == {None, Some(450)}

VARIABLES
    constructed,    \* FALSE when ThrottleController(...) raised ValueError
    available, restore_rate, max_available, last_update,
    total_calls, total_cost,
    now,            \* time.monotonic()
    pc,             \* per thread: where it is
    args,           \* per thread: the (min_bucket, min_sleep) of its before_request
    waits,          \* per thread: the cond.wait(timeout=sleep_time) it is in
    lastOp,         \* the last operation that supplied a restore_rate value
    ex,             \* the execute call in progress: its locals, and the trace
                    \* of the calls it has made
    pg,             \* the cursor_pages generator in progress: its locals, and
                    \* the trace of its execute calls, sleeps and yields
    peer,           \* the ThrottleController of a second ShopifySession
    settle          \* of the last after_response, while no time has passed since:
                    \* the blocked threads it notified that have not run again
                    \* yet, those released since, and those whose threshold it
                    \* met exactly

bucket == <<available, restore_rate, max_available, last_update, total_calls, total_cost>>
tvars == <<constructed, available, restore_rate, max_available, last_update,
           total_calls, total_cost, now, pc, args, waits, lastOp, settle>>
vars == <<tvars, ex, pg, peer>>
\* what the controller and execute leave alone
rest == <<pg, peer>>

NoArgs == [min_bucket |-> 0, min_sleep |-> 0]
NoWait == [since |-> 0, min_sleep |-> 0, num |-> 0, den |-> 1]
NoSettle == [waiters |-> {}, released |-> {}, notified |-> {}]
NoExec == [retries |-> 0, attempt |-> 0, payload |-> None, wakeAt |-> 0,
           log |-> <<>>, outcome |-> None]
NoPage == [first |-> 0, cursor |-> None, attempt |-> 0, page_retries |-> 0,
           data |-> None, wakeAt |-> 0,
           calls |-> <<>>, sleeps |-> <<>>, pages |-> <<>>, items |-> <<>>,
           outcome |-> None]

\* a ThrottleController as its dataclass defaults make it, with the thread
\* that uses it
NewController ==
    [available |-> DefaultAvailable, restore_rate |-> DefaultRestoreRate,
     max_available |-> DefaultMaxAvailable, last_update |-> 0,
     total_calls |-> 0, total_cost |-> 0,
     pc |-> "idle", min_bucket |-> 0, wait |-> NoWait]

\* ------------------------------------------------- ThrottleController code

\* __setattr__: the guard on restore_rate
RejectsRate(value) == value <= 0

\* RefillValue gone wrong: no budget is restored as time passes
RefillValueFrozen(av, rr, ma, elapsed) == av

\* RefillValue gone wrong: the refill is not capped at max_available
RefillValueUncapped(av, rr, ma, elapsed) ==
    IF elapsed > 0 THEN av + elapsed * Max(rr, 0) ELSE av

\* _refill: the new value of available after `elapsed` seconds
RefillValue(av, rr, ma, elapsed) ==
    IF elapsed > 0 THEN Min(ma, av + elapsed * Max(rr, 0)) ELSE av

\* _refill: the new value of last_update
RefillStamp(lu, t) == IF t - lu > 0 THEN t ELSE lu

\* ClampMinSleep gone wrong: a negative min_sleep means no minimum wait
ClampMinSleepToZero(min_sleep) == IF min_sleep < 0 THEN 0 ELSE min_sleep

\* before_request: min_sleep as used after `if min_sleep < 0: min_sleep = 1.0`
ClampMinSleep(min_sleep) == IF min_sleep < 0 THEN DefaultMinSleep ELSE min_sleep

\* before_request: avg_cost = total_cost / total_calls if total_calls else 0,
\* as a fraction num/den; the only memory of past costs the controller keeps
AverageCost ==
    IF total_calls # 0 THEN [num |-> total_cost, den |-> total_calls]
    ELSE [num |-> 0, den |-> 1]

\* before_request: target as a fraction num/den.
\*   avg_cost = total_cost / total_calls if total_calls else 0
\*   target = max(min_bucket, avg_cost if avg_cost > min_bucket else 0)
Target(min_bucket, tcalls, tcost) ==
    IF tcalls # 0 /\ tcost > min_bucket * tcalls
    THEN IF tcost >= 0 THEN [num |-> tcost, den |-> tcalls] ELSE [num |-> 0, den |-> 1]
    ELSE [num |-> Max(min_bucket, 0), den |-> 1]

\* before_request: `if self.available >= target: return`
Admits(av, tgt) == av * tgt.den >= tgt.num

\* NotifyAll gone wrong: notify() in place of notify_all()
NotifyOne(p) ==
    IF \E t \in DOMAIN p : p[t] = "waiting"
    THEN [p EXCEPT ![CHOOSE t \in DOMAIN p : p[t] = "waiting"] = "woken"]
    ELSE p

\* after_response: notify_all wakes every thread suspended in cond.wait
NotifyAll(p) == [t \in DOMAIN p |-> IF p[t] = "waiting" THEN "woken" ELSE p[t]]

\* RateFromStatus gone wrong: the reported rate is taken as it comes
RateFromStatusUnchecked(rr_val, old) == rr_val

\* after_response: restore_rate after a throttle status reporting rr_val
RateFromStatus(rr_val, old) == IF rr_val > 0 THEN rr_val ELSE old

\* AvailableFromStatus gone wrong: the local estimate is kept
AvailableKeptLocal(ca) == available

\* after_response: available after a throttle status reporting ca
AvailableFromStatus(ca) == ca

\* one iteration of the `while True` loop of before_request, run by thread t
\* under the lock; `ret` is where t continues when it is admitted
LoopIteration(t, min_bucket, min_sleep, ret) ==
    LET av  == RefillValue(available, restore_rate, max_available, now - last_update)
        tgt == Target(min_bucket, total_calls, total_cost)
    IN  /\ available' = av
        /\ last_update' = RefillStamp(last_update, now)
        /\ UNCHANGED <<restore_rate, max_available, total_calls, total_cost>>
        /\ IF Admits(av, tgt)
           THEN /\ pc' = [pc EXCEPT ![t] = ret]
                /\ waits' = [waits EXCEPT ![t] = NoWait]
                /\ settle' = [settle EXCEPT
                                 !.released = IF t \in settle.notified THEN @ \cup {t} ELSE @,
                                 !.notified = @ \ {t}]
           ELSE /\ pc' = [pc EXCEPT ![t] = "waiting"]
                \* sleep_time = max(min_sleep, (target - available) / restore_rate)
                /\ waits' = [waits EXCEPT ![t] =
                                [since |-> now, min_sleep |-> min_sleep,
                                 num |-> tgt.num - av * tgt.den,
                                 den |-> tgt.den * restore_rate]]
                /\ settle' = [settle EXCEPT !.notified = @ \ {t}]

\* the effect of after_response(throttle_status, cost) on the controller
ApplyResponse(throttle_status, cost, p) ==
    LET st == IF TruthyDict(throttle_status) THEN throttle_status[1] ELSE EmptyDict
        ca == get(st, "currentlyAvailable")
        rr == get(st, "restoreRate")
        ma == get(st, "maximumAvailable")
        av == IF ca # None THEN AvailableFromStatus(ca[1]) ELSE available
        tcalls == IF cost # None THEN total_calls + 1 ELSE total_calls
        tcost  == IF cost # None THEN total_cost + cost[1] ELSE total_cost
    IN  /\ available' = av
        /\ restore_rate' = IF rr # None THEN RateFromStatus(rr[1], restore_rate)
                           ELSE restore_rate
        /\ max_available' = IF ma # None THEN ma[1] ELSE max_available
        /\ last_update' = IF TruthyDict(throttle_status) THEN now ELSE last_update
        /\ total_calls' = tcalls
        /\ total_cost' = tcost
        /\ pc' = NotifyAll(p)
        /\ lastOp' = IF rr # None THEN [op |-> "after_response", value |-> rr[1]]
                      ELSE lastOp
        /\ settle' = [waiters |-> {t \in Threads : /\ pc[t] \in {"waiting", "woken"}
                                                   /\ LET tgt == Target(args[t].min_bucket, tcalls, tcost)
                                                      IN av * tgt.den = tgt.num},
                      released |-> {},
                      notified |-> {t \in Threads : p[t] \in {"waiting", "woken"}}]

\* ----------------------------------------------------------------- Init
Init ==
    /\ \E rr \in CtorRates :
          /\ constructed = ~RejectsRate(rr)
          /\ restore_rate = IF RejectsRate(rr) THEN DefaultRestoreRate ELSE rr
          /\ lastOp = [op |-> "construct", value |-> rr]
    /\ available = DefaultAvailable
    /\ max_available = DefaultMaxAvailable
    /\ last_update = 0
    /\ total_calls = 0
    /\ total_cost = 0
    /\ now = 0
    /\ pc = [t \in Threads |-> "idle"]
    /\ args = [t \in Threads |-> NoArgs]
    /\ waits = [t \in Threads |-> NoWait]
    /\ settle = NoSettle
    /\ ex = NoExec
    /\ pg = NoPage
    /\ peer = NewController

\* -------------------------------------------------------------- actions

\* time.monotonic() advances
Tick ==
    /\ UNCHANGED rest
    /\ constructed
    /\ now < MaxTime
    /\ now' = now + 1
    /\ settle' = NoSettle
    /\ UNCHANGED <<constructed, bucket, pc, args, waits, lastOp, ex>>

\* controller.restore_rate = value, by the owner of the controller
SetRestoreRate(value) ==
    /\ UNCHANGED rest
    /\ constructed
    /\ restore_rate' = IF RejectsRate(value) THEN restore_rate ELSE value
    /\ lastOp' = [op |-> "setattr", value |-> value]
    /\ UNCHANGED <<constructed, available, max_available, last_update,
                   total_calls, total_cost, now, pc, args, waits, settle, ex>>

\* a worker thread calls before_request(min_bucket, min_sleep)
before_request(t, min_bucket, min_sleep) ==
    /\ UNCHANGED rest
    /\ constructed
    /\ pc[t] = "idle"
    /\ args' = [args EXCEPT ![t] = [min_bucket |-> min_bucket,
                                    min_sleep |-> ClampMinSleep(min_sleep)]]
    /\ LoopIteration(t, min_bucket, ClampMinSleep(min_sleep), "idle")
    /\ UNCHANGED <<constructed, now, lastOp, ex>>

\* cond.wait(timeout=sleep_time) times out
Timeout(t) ==
    /\ UNCHANGED rest
    /\ pc[t] = "waiting"
    /\ now - waits[t].since >= waits[t].min_sleep
    /\ (now - waits[t].since) * waits[t].den >= waits[t].num
    /\ pc' = [pc EXCEPT ![t] = "woken"]
    /\ UNCHANGED <<constructed, bucket, now, args, waits, lastOp, settle, ex>>

\* a woken worker re-acquires the lock and runs the loop again
Recheck(t) ==
    /\ UNCHANGED rest
    /\ pc[t] = "woken"
    /\ LoopIteration(t, args[t].min_bucket, args[t].min_sleep, "idle")
    /\ UNCHANGED <<constructed, now, args, lastOp, ex>>

\* after_response(throttle_status, cost) called directly on the controller
after_response(throttle_status, cost) ==
    /\ UNCHANGED rest
    /\ constructed
    /\ cost # None => total_calls < MaxCalls
    /\ ApplyResponse(throttle_status, cost, pc)
    /\ UNCHANGED <<constructed, now, args, waits, ex>>

\* ------------------------------------------------------- execute: inputs

\* a string, kept as what it says and how long it is
Text(body, len) == [body |-> body, len |-> len]

\* s[:300]
Slice(text) == [body |-> text.body, len |-> Min(text.len, SnippetLimit)]

\* d.get(k, default)
getd(d, k, default) == IF k \in DOMAIN d THEN d[k] ELSE default

RECURSIVE Pow2(_)
Pow2(n) == IF n <= 0 THEN 1 ELSE 2 * Pow2(n - 1)

\* the `variables` argument of execute
VariableInputs == {None, Some([first |-> 10])}
\* the `retries` argument of execute
RetryInputs == -1..MaxRetries

ServerOk == [currentlyAvailable |-> 900, restoreRate |-> 50, maximumAvailable |-> 1000]
ServerDrained == [currentlyAvailable |-> 0, restoreRate |-> 50, maximumAvailable |-> 1000]

\* extensions.cost of a response body
CostInfos ==
    { [requestedQueryCost |-> 7, actualQueryCost |-> 5, throttleStatus |-> ServerOk],
      [requestedQueryCost |-> 7, actualQueryCost |-> 0, throttleStatus |-> ServerOk],
      [requestedQueryCost |-> 450, throttleStatus |-> ServerDrained] }

ErrBad == [message |-> Text("bad", 3)]
ErrLong == [message |-> Text("bad field", 400)]
ErrThrottledCode == [message |-> Text("slow down", 9), extensions |-> [code |-> "THROTTLED"]]
ErrThrottledMessage == [message |-> Text("Throttled", 9)]

\* the `errors` list of a response body
ErrorLists ==
    { <<>>, <<ErrBad>>, <<ErrThrottledCode>>, <<ErrLong, ErrThrottledMessage>> }

\* a parsed response body
Body(cost_info, errors) ==
    ("data" :> "products")
    @@ (IF cost_info # None THEN "extensions" :> [cost |-> cost_info[1]] ELSE EmptyDict)
    @@ (IF errors # None THEN "errors" :> errors[1] ELSE EmptyDict)

Bodies ==
    { Body(ci, er) : ci \in {None} \cup {Some(c) : c \in CostInfos},
                     er \in {None} \cup {Some(e) : e \in ErrorLists} }

BodyTexts == {Text("err", 3), Text("long body", 301)}

\* an exception: its class and str(exc)
Exc(type, text) == [type |-> type, text |-> text]

\* what transport.post may raise
TransportErrors ==
    { Exc("Timeout", Text("timed out", 9)),
      Exc("ConnectionError", Text("boom", 4)),
      Exc("RuntimeError", Text("closed", 6)) }

\* what resp.json() raises on a body that is not JSON
JSONDecodeError == Exc("JSONDecodeError", Text("Expecting value", 15))

\* what transport.post does: it raises, or returns a response object
Responses ==
    { [raises |-> TRUE, exc |-> e] : e \in TransportErrors }
    \cup { [raises |-> FALSE, status_code |-> None, text |-> Text("err", 3), json |-> None] }
    \cup { [raises |-> FALSE, status_code |-> Some(st), text |-> tx, json |-> None] :
              st \in {200, 404, 500}, tx \in BodyTexts }
    \cup { [raises |-> FALSE, status_code |-> Some(200), text |-> Text("{...}", 5), json |-> Some(b)] :
              b \in Bodies }

\* --------------------------------------------------------- execute: code

\* ShopifyGQLError gone wrong: raised without `from exc`
ShopifyGQLErrorNoCause(message, status_code, cause) ==
    [message |-> (IF message.len <= SnippetLimit THEN message ELSE Slice(message)),
     status_code |-> status_code, cause |-> None]

\* ShopifyGQLError(message, status_code); cause is __cause__: the exception it
\* was raised `from`, or None
ShopifyGQLError(message, status_code, cause) ==
    [message |-> (IF message.len <= SnippetLimit THEN message ELSE Slice(message)),
     status_code |-> status_code, cause |-> cause]

\* str(errors)
RECURSIVE ReprLen(_)
ReprLen(errors) ==
    IF errors = <<>> THEN 2
    ELSE Head(errors).message.len + 16 + ReprLen(Tail(errors))
Str(errors) == Text(errors, ReprLen(errors))

\* Backoff gone wrong: a fixed delay
BackoffFixed(attempt) == 1

\* time.sleep(2 ** attempt)
Backoff(attempt) == Pow2(attempt)

\* Retryable5xx gone wrong: client errors are retried too
RetryableAnyError(status, attempt, retries) == status >= 400 /\ attempt < retries

\* `if status >= 500 and attempt < retries`
Retryable5xx(status, attempt, retries) == status >= 500 /\ attempt < retries

\* IsThrottledError gone wrong: only the error code is recognised
IsThrottledCodeOnly(err) ==
    get(getd(err, "extensions", EmptyDict), "code") = Some("THROTTLED")

\* err.get("extensions", {}).get("code") == "THROTTLED" or err.get("message") == "Throttled"
IsThrottledError(err) ==
    \/ get(getd(err, "extensions", EmptyDict), "code") = Some("THROTTLED")
    \/ get(err, "message") = Some(Text("Throttled", 9))

\* throttled = any(... for err in errors)
IsThrottled(errors) == \E i \in 1..Len(errors) : IsThrottledError(errors[i])

\* RetryThrottled gone wrong: a throttled response is retried on the last
\* attempt too
RetryThrottledAlways(errors, attempt, retries) == IsThrottled(errors)

\* `if throttled and attempt < retries: continue`
RetryThrottled(errors, attempt, retries) == IsThrottled(errors) /\ attempt < retries

\* cost_info = data.get("extensions", {}).get("cost", {})
CostInfoOf(data) == getd(getd(data, "extensions", EmptyDict), "cost", EmptyDict)

\* ThrottleStatusOf gone wrong: the key is misspelt
ThrottleStatusMisspelt(cost_info) == get(cost_info, "throttle_status")

\* throttle_status = cost_info.get("throttleStatus")
ThrottleStatusOf(cost_info) == get(cost_info, "throttleStatus")

\* cost = cost_info.get("actualQueryCost") or cost_info.get("requestedQueryCost")
CostOf(cost_info) == PyOr(get(cost_info, "actualQueryCost"), get(cost_info, "requestedQueryCost"))

\* RetryPc gone wrong: a retry posts again without passing the gate
RetryPcPost == "post"

\* NextAttempt gone wrong: a retry does not use up an attempt
NextAttemptStuck(attempt) == attempt

\* where `continue` resumes: the top of the for loop
RetryPc == "loop"

\* `for attempt in range(retries + 1)`: the next value of attempt
NextAttempt(attempt) == attempt + 1

\* `for attempt in range(retries + 1)`: attempt is still in range
InRange(attempt, retries) == attempt <= retries

Plan(st, sleep, next, error, data) ==
    [settle |-> st, sleep |-> sleep, next |-> next, error |-> error, data |-> data]
Raise(st, error) == Plan(st, None, "raise", Some(error), None)

\* the body of the for loop after transport.post: what execute does with the
\* outcome of the post on attempt `attempt`
Handle(resp, attempt, retries) ==
    IF resp.raises
    THEN Raise(None, ShopifyGQLError(resp.exc.text, None, Some(resp.exc)))
    ELSE IF resp.status_code = None
    THEN Raise(None, ShopifyGQLError(Text("Transport response missing status_code", 38), None, None))
    ELSE LET status == resp.status_code[1] IN
    IF Retryable5xx(status, attempt, retries)
    THEN Plan(None, Some(Backoff(attempt)), "retry", None, None)
    ELSE IF status # 200
    THEN Raise(None, ShopifyGQLError(Slice(resp.text), Some(status), None))
    ELSE IF resp.json = None
    THEN Raise(None, ShopifyGQLError(Slice(resp.text), Some(status), Some(JSONDecodeError)))
    ELSE LET data == resp.json[1]
             cost_info == CostInfoOf(data)
             st == Some([throttle_status |-> ThrottleStatusOf(cost_info),
                         cost |-> CostOf(cost_info)])
         IN  IF "errors" \in DOMAIN data
             THEN IF RetryThrottled(data["errors"], attempt, retries)
                  THEN Plan(st, None, "retry", None, None)
                  ELSE Raise(st, ShopifyGQLError(Slice(Str(data["errors"])), None, None))
             ELSE Plan(st, None, "return", None, Some(data))

\* ------------------------------------------------------ execute: actions

Logged(events) == [ex EXCEPT !.log = @ \o events]

\* a caller thread enters execute(session, query, variables, retries=retries)
execute(t, variables, retries) ==
    /\ UNCHANGED rest
    /\ constructed
    /\ pc[t] = "idle"
    /\ pc' = [pc EXCEPT ![t] = "loop"]
    /\ ex' = [retries |-> retries, attempt |-> 0,
              payload |-> Some([query |-> "query",
                                variables |-> IF TruthyDict(variables) THEN variables[1]
                                              ELSE EmptyDict]),
              wakeAt |-> 0, log |-> <<>>, outcome |-> None]
    /\ UNCHANGED <<constructed, bucket, now, args, waits, lastOp, settle>>

\* top of the loop, attempt in range(retries + 1): session.throttle.before_request(...)
ExecBeforeRequest(t) ==
    /\ UNCHANGED rest
    /\ pc[t] = "loop"
    /\ InRange(ex.attempt, ex.retries)
    /\ args' = [args EXCEPT ![t] = [min_bucket |-> SessionMinBucket,
                                    min_sleep |-> ClampMinSleep(SessionMinSleep)]]
    /\ LoopIteration(t, SessionMinBucket, ClampMinSleep(SessionMinSleep), "post")
    /\ ex' = Logged(<<[ev |-> "before_request", min_bucket |-> SessionMinBucket,
                       min_sleep |-> SessionMinSleep]>>
                    \o (IF pc'[t] = "post" THEN <<[ev |-> "admitted"]>> ELSE <<>>))
    /\ UNCHANGED <<constructed, now, lastOp>>

\* the loop is exhausted: raise ShopifyGQLError("Max retries exceeded")
ExecExhausted(t) ==
    /\ UNCHANGED rest
    /\ pc[t] = "loop"
    /\ ~InRange(ex.attempt, ex.retries)
    /\ pc' = [pc EXCEPT ![t] = "done"]
    /\ LET err == ShopifyGQLError(Text("Max retries exceeded", 20), None, None)
       IN  ex' = [ex EXCEPT !.log = @ \o <<[ev |-> "raise", error |-> err]>>,
                            !.outcome = Some([kind |-> "raise", error |-> err])]
    /\ UNCHANGED <<constructed, bucket, now, args, waits, lastOp, settle>>

\* the caller, woken inside before_request, runs the loop of before_request again
ExecRecheck(t) ==
    /\ UNCHANGED rest
    /\ pc[t] = "woken"
    /\ LoopIteration(t, args[t].min_bucket, args[t].min_sleep, "post")
    /\ ex' = Logged(IF pc'[t] = "post" THEN <<[ev |-> "admitted"]>> ELSE <<>>)
    /\ UNCHANGED <<constructed, now, args, lastOp>>

\* session.transport.post(...) raises or returns resp, and execute handles it
ExecPost(t, resp) ==
    /\ UNCHANGED rest
    /\ pc[t] = "post"
    /\ LET plan == Handle(resp, ex.attempt, ex.retries)
           npc  == IF plan.next # "retry" THEN "done"
                   ELSE IF plan.sleep # None THEN "sleep" ELSE RetryPc
           events ==
               <<[ev |-> "post", payload |-> ex.payload], [ev |-> "response", resp |-> resp]>>
               \o (IF plan.settle # None
                   THEN <<[ev |-> "after_response",
                           throttle_status |-> plan.settle[1].throttle_status,
                           cost |-> plan.settle[1].cost]>>
                   ELSE <<>>)
               \o (IF plan.sleep # None
                   THEN <<[ev |-> "sleep", seconds |-> plan.sleep[1]]>> ELSE <<>>)
               \o (IF plan.next = "raise" THEN <<[ev |-> "raise", error |-> plan.error[1]]>>
                   ELSE IF plan.next = "return" THEN <<[ev |-> "return", data |-> plan.data[1]]>>
                   ELSE <<>>)
       IN  /\ ex' = [ex EXCEPT
                        !.log = @ \o events,
                        !.attempt = IF plan.next = "retry" /\ plan.sleep = None
                                    THEN NextAttempt(@) ELSE @,
                        !.wakeAt = IF plan.sleep # None THEN now + plan.sleep[1] ELSE @,
                        !.outcome = IF plan.next = "raise"
                                    THEN Some([kind |-> "raise", error |-> plan.error[1]])
                                    ELSE IF plan.next = "return"
                                    THEN Some([kind |-> "return", data |-> plan.data[1]])
                                    ELSE @]
           /\ IF plan.settle # None
              THEN ApplyResponse(plan.settle[1].throttle_status, plan.settle[1].cost,
                                 [pc EXCEPT ![t] = npc])
              ELSE /\ pc' = [pc EXCEPT ![t] = npc]
                   /\ UNCHANGED <<bucket, lastOp, settle>>
    /\ UNCHANGED <<constructed, now, args, waits>>

\* time.sleep(2 ** attempt) returns; `continue`
ExecWake(t) ==
    /\ UNCHANGED rest
    /\ pc[t] = "sleep"
    /\ now >= ex.wakeAt
    /\ pc' = [pc EXCEPT ![t] = RetryPc]
    /\ ex' = [ex EXCEPT !.attempt = NextAttempt(@)]
    /\ UNCHANGED <<constructed, bucket, now, args, waits, lastOp, settle>>

\* cond.wait(timeout=sleep_time) of thread t has run out
TimeoutDue(t) ==
    /\ now - waits[t].since >= waits[t].min_sleep
    /\ (now - waits[t].since) * waits[t].den >= waits[t].num

\* time passes while the caller is blocked in time.sleep or cond.wait
Elapse ==
    /\ \E t \in Callers \cup Pagers :
          \/ pc[t] = "sleep" /\ now < ex.wakeAt
          \/ pc[t] = "waiting" /\ ~TimeoutDue(t)
          \/ pc[t] = "page_sleep" /\ now < pg.wakeAt
    /\ now' = now + 1
    /\ settle' = NoSettle
    /\ UNCHANGED <<constructed, bucket, pc, args, waits, lastOp, ex, rest>>

ExecNext ==
    \/ \E t \in Callers, v \in VariableInputs, r \in RetryInputs : execute(t, v, r)
    \/ \E t \in Callers : ExecBeforeRequest(t)
    \/ \E t \in Callers : ExecExhausted(t)
    \/ \E t \in Callers : Timeout(t)
    \/ \E t \in Callers : ExecRecheck(t)
    \/ \E t \in Callers, resp \in Responses : ExecPost(t, resp)
    \/ \E t \in Callers : ExecWake(t)
    \/ Elapse

ExecSpec == Init /\ [][ExecNext]_vars

\* ------------------------------------------------- cursor_pages: inputs

\* default of the `retries` parameter of execute
DefaultRetries == 2

\* the `variables` argument of cursor_pages
PageVariableInputs == {None, Some([first |-> 10]), Some([first |-> 0])}
\* the `page_size` argument of cursor_pages
PageSizes == {2}
\* int(os.getenv("SHOPIFY_GQL_PAGE_RETRIES", ...))
PageRetryInputs == -1..MaxPageRetries
\* the `connection_path` argument of cursor_pages
ConnectionPath == <<"data", "products">>

\* a JSON null inside a parsed body: a value that is not a dict
JsonNull == [json_null |-> TRUE]
IsDict(v) == "json_null" \notin DOMAIN v

\* the connection the server holds, page by page: what it answers to `after`
Catalogue(after) ==
    IF after = None
    THEN [nodes |-> <<"P1", "P2">>,
          pageInfo |-> [hasNextPage |-> TRUE, endCursor |-> "cursor1"]]
    ELSE IF after = Some("cursor1")
    THEN [edges |-> <<[node |-> "P3"]>>,
          pageInfo |-> [hasNextPage |-> TRUE, endCursor |-> "cursor2"]]
    ELSE [nodes |-> <<"P4">>,
          pageInfo |-> [hasNextPage |-> FALSE, endCursor |-> "cursor3"]]

\* the throttle status of a shop whose bucket is nearly empty
ServerLow == [currentlyAvailable |-> 50, restoreRate |-> 50, maximumAvailable |-> 1000]

\* parsed bodies the server may answer a page request with
PageBodies(after) ==
    { [data |-> [products |-> Catalogue(after)],
       extensions |-> [cost |-> [requestedQueryCost |-> 7, actualQueryCost |-> 5,
                                 throttleStatus |-> ServerLow]]],
      [data |-> [shop |-> Catalogue(after)]],
      [data |-> JsonNull],
      [data |-> [products |-> [pageInfo |-> [hasNextPage |-> FALSE]]]] }

\* what transport.post does on a page request; the server is unavailable
\* (500) only before it has served a page
PageResponses(after) ==
    { [raises |-> TRUE, exc |-> e] : e \in TransportErrors }
    \cup { [raises |-> FALSE, status_code |-> Some(st), text |-> Text("err", 3), json |-> None] :
              st \in IF after = None THEN {200, 404, 500} ELSE {200, 404} }
    \cup { [raises |-> FALSE, status_code |-> Some(200), text |-> Text("{...}", 5), json |-> Some(b)] :
              b \in PageBodies(after) }

\* --------------------------------------------------- cursor_pages: code

\* vars_copy["first"] = first if (isinstance(first, int) and first > 0) else page_size
FirstOf(variables, page_size) ==
    LET first == IF TruthyDict(variables) THEN get(variables[1], "first") ELSE None
    IN  IF first # None /\ first[1] > 0 THEN first[1] ELSE page_size

\* IsTransient gone wrong: every chained exception is retried
IsChained(cause) == cause # None

\* isinstance(cause, (requests.exceptions.ConnectionError, requests.exceptions.Timeout))
IsTransient(cause) == cause # None /\ cause[1].type \in {"ConnectionError", "Timeout"}

\* NextCursor gone wrong: the cursor is not advanced
NextCursorStuck(page_info, cursor) == cursor

\* cursor = page_info.get("endCursor")
NextCursor(page_info, cursor) == get(page_info, "endCursor")

\* for key in connection_path: ... conn = conn[key]; None stands for ValueError
RECURSIVE Walk(_, _)
Walk(conn, path) ==
    IF path = <<>> THEN Some(conn)
    ELSE IF ~IsDict(conn) \/ Head(path) \notin DOMAIN conn THEN None
    ELSE Walk(conn[Head(path)], Tail(path))

\* items = conn["nodes"], or [edge["node"] for edge in conn["edges"]];
\* None stands for ValueError
ItemsOf(conn) ==
    IF "nodes" \in DOMAIN conn THEN Some(conn.nodes)
    ELSE IF "edges" \in DOMAIN conn
    THEN Some([i \in DOMAIN conn.edges |-> conn.edges[i].node])
    ELSE None

\* `if not page_info.get("hasNextPage"): break`
HasNextPage(conn) == getd(getd(conn, "pageInfo", EmptyDict), "hasNextPage", FALSE) = TRUE

\* the body of the while loop after the for loop: walk to the connection,
\* yield its items, then stop or move the cursor
Consume(t, data) ==
    IF data = None
    THEN /\ pc' = [pc EXCEPT ![t] = "page_done"]
         /\ pg' = [pg EXCEPT !.outcome = Some([kind |-> "raise", error |-> "UnboundLocalError"])]
    ELSE LET conn == Walk(data[1], ConnectionPath) IN
    IF conn = None \/ ItemsOf(conn[1]) = None
    THEN /\ pc' = [pc EXCEPT ![t] = "page_done"]
         /\ pg' = [pg EXCEPT !.data = data,
                             !.pages = Append(@, data[1]),
                             !.outcome = Some([kind |-> "raise", error |-> "ValueError"])]
    ELSE IF HasNextPage(conn[1])
    THEN /\ pc' = [pc EXCEPT ![t] = "page_try"]
         /\ pg' = [pg EXCEPT !.data = data,
                             !.pages = Append(@, data[1]),
                             !.items = @ \o ItemsOf(conn[1])[1],
                             !.cursor = NextCursor(getd(conn[1], "pageInfo", EmptyDict), @),
                             !.attempt = 0]
    ELSE /\ pc' = [pc EXCEPT ![t] = "page_done"]
         /\ pg' = [pg EXCEPT !.data = data,
                             !.pages = Append(@, data[1]),
                             !.items = @ \o ItemsOf(conn[1])[1],
                             !.outcome = Some([kind |-> "stop"])]

\* ------------------------------------------------ cursor_pages: actions

tframe == <<constructed, bucket, now, args, waits, lastOp, settle>>

\* the consumer starts the generator: everything up to the first `for`
cursor_pages(t, variables, page_size, page_retries) ==
    /\ constructed
    /\ pc[t] = "idle"
    /\ pc' = [pc EXCEPT ![t] = "page_try"]
    /\ pg' = [NoPage EXCEPT !.first = FirstOf(variables, page_size),
                            !.page_retries = page_retries]
    /\ UNCHANGED <<tframe, ex, peer>>

\* attempt in range(page_retries + 1): data = execute(session, query, vars_copy)
PageExecute(t) ==
    /\ pc[t] = "page_try"
    /\ InRange(pg.attempt, pg.page_retries)
    /\ pc' = [pc EXCEPT ![t] = "loop"]
    /\ ex' = [retries |-> DefaultRetries, attempt |-> 0,
              payload |-> Some([query |-> "query",
                                variables |-> [first |-> pg.first, after |-> pg.cursor]]),
              wakeAt |-> 0, log |-> <<>>, outcome |-> None]
    /\ pg' = [pg EXCEPT !.calls = Append(@, [after |-> pg.cursor, attempt |-> pg.attempt,
                                            page |-> Len(pg.pages) + 1])]
    /\ UNCHANGED <<tframe, peer>>

\* the for loop ends without an attempt: `data` is what it was
PageExhausted(t) ==
    /\ pc[t] = "page_try"
    /\ ~InRange(pg.attempt, pg.page_retries)
    /\ Consume(t, pg.data)
    /\ UNCHANGED <<tframe, ex, peer>>

\* execute returned: break, then the rest of the while body
PageReturn(t) ==
    /\ pc[t] = "done"
    /\ ex.outcome[1].kind = "return"
    /\ Consume(t, Some(ex.outcome[1].data))
    /\ UNCHANGED <<tframe, ex, peer>>

\* execute raised ShopifyGQLError: sleep and retry the page, or re-raise
PageExcept(t) ==
    /\ pc[t] = "done"
    /\ ex.outcome[1].kind = "raise"
    /\ IF IsTransient(ex.outcome[1].error.cause) /\ pg.attempt < pg.page_retries
       THEN /\ pc' = [pc EXCEPT ![t] = "page_sleep"]
            /\ pg' = [pg EXCEPT !.wakeAt = now + Backoff(pg.attempt),
                                !.sleeps = Append(@, Backoff(pg.attempt))]
       ELSE /\ pc' = [pc EXCEPT ![t] = "page_done"]
            /\ pg' = [pg EXCEPT !.outcome = Some([kind |-> "raise",
                                                  error |-> ex.outcome[1].error])]
    /\ UNCHANGED <<tframe, ex, peer>>

\* time.sleep(2 ** attempt) returns; `continue`
PageWake(t) ==
    /\ pc[t] = "page_sleep"
    /\ now >= pg.wakeAt
    /\ pc' = [pc EXCEPT ![t] = "page_try"]
    /\ pg' = [pg EXCEPT !.attempt = NextAttempt(@)]
    /\ UNCHANGED <<tframe, ex, peer>>

PageNext ==
    \/ \E t \in Pagers, v \in PageVariableInputs, ps \in PageSizes, pr \in PageRetryInputs :
          cursor_pages(t, v, ps, pr)
    \/ \E t \in Pagers : PageExecute(t)
    \/ \E t \in Pagers : PageExhausted(t)
    \/ \E t \in Pagers : ExecBeforeRequest(t)
    \/ \E t \in Pagers : Timeout(t)
    \/ \E t \in Pagers : ExecRecheck(t)
    \/ \E t \in Pagers :
          /\ pc[t] = "post"
          /\ \E resp \in PageResponses(ex.payload[1].variables.after) : ExecPost(t, resp)
    \/ \E t \in Pagers : ExecWake(t)
    \/ \E t \in Pagers : PageReturn(t)
    \/ \E t \in Pagers : PageExcept(t)
    \/ \E t \in Pagers : PageWake(t)
    \/ Elapse

\* one consumer draining cursor_pages over the session; execute is called
\* with its default retries, so its for loop never runs out
PageSpec == Init /\ [][PageNext]_vars
\* --------------------------------------------------------- two sessions

Sessions == {"s1", "s2"}

\* DefaultFactory gone wrong: one ThrottleController() made at class
\* definition and shared by every session
SharedDefault(s) == "s1"

\* throttle: ThrottleController = field(default_factory=ThrottleController):
\* the controller a session gets when none is passed, named after the session
DefaultFactory(s) == s

\* session.throttle
ThrottleOf(s) == DefaultFactory(s)

\* throttle_status / cost arguments of after_response, and what the server
\* answers, with two sessions
PairStatuses == {Some(ServerDrained), Some(ServerOk)}
PairCosts == {Some(50)}
PairResponses ==
    { [raises |-> FALSE, status_code |-> Some(404), text |-> Text("err", 3), json |-> None],
      [raises |-> FALSE, status_code |-> Some(200), text |-> Text("{...}", 5),
       json |-> Some(Body(Some([requestedQueryCost |-> 450, throttleStatus |-> ServerDrained]),
                          None))] }

\* before_request on the second controller: one iteration of its loop
PeerLoop(c, min_bucket, min_sleep) ==
    LET av  == RefillValue(c.available, c.restore_rate, c.max_available, now - c.last_update)
        tgt == Target(min_bucket, c.total_calls, c.total_cost)
        r   == [c EXCEPT !.available = av,
                         !.last_update = RefillStamp(c.last_update, now),
                         !.min_bucket = min_bucket]
    IN  IF Admits(av, tgt)
        THEN [r EXCEPT !.pc = "idle", !.wait = NoWait]
        ELSE [r EXCEPT !.pc = "waiting",
                       !.wait = [since |-> now, min_sleep |-> min_sleep,
                                 num |-> tgt.num - av * tgt.den,
                                 den |-> tgt.den * c.restore_rate]]

\* after_response on the second controller
PeerApplied(c, throttle_status, cost) ==
    LET st == IF TruthyDict(throttle_status) THEN throttle_status[1] ELSE EmptyDict
        ca == get(st, "currentlyAvailable")
        rr == get(st, "restoreRate")
        ma == get(st, "maximumAvailable")
    IN  [c EXCEPT
           !.available = IF ca # None THEN AvailableFromStatus(ca[1]) ELSE @,
           !.restore_rate = IF rr # None THEN RateFromStatus(rr[1], @) ELSE @,
           !.max_available = IF ma # None THEN ma[1] ELSE @,
           !.last_update = IF TruthyDict(throttle_status) THEN now ELSE @,
           !.total_calls = IF cost # None THEN @ + 1 ELSE @,
           !.total_cost = IF cost # None THEN @ + cost[1] ELSE @,
           !.pc = NotifyAll([t \in {"v1"} |-> c.pc])["v1"]]

PeerBeforeRequest(min_bucket, min_sleep) ==
    /\ peer.pc = "idle"
    /\ peer' = PeerLoop(peer, min_bucket, ClampMinSleep(min_sleep))
    /\ UNCHANGED <<tvars, ex, pg>>

PeerTimeout ==
    /\ peer.pc = "waiting"
    /\ now - peer.wait.since >= peer.wait.min_sleep
    /\ (now - peer.wait.since) * peer.wait.den >= peer.wait.num
    /\ peer' = [peer EXCEPT !.pc = "woken"]
    /\ UNCHANGED <<tvars, ex, pg>>

PeerRecheck ==
    /\ peer.pc = "woken"
    /\ peer' = PeerLoop(peer, peer.min_bucket, peer.wait.min_sleep)
    /\ UNCHANGED <<tvars, ex, pg>>

PeerAfterResponse(throttle_status, cost) ==
    /\ cost # None => peer.total_calls < MaxCalls
    /\ peer' = PeerApplied(peer, throttle_status, cost)
    /\ UNCHANGED <<tvars, ex, pg>>

\* the operations of session s: they go to session.throttle
SessionBeforeRequest(s, min_bucket, min_sleep) ==
    IF ThrottleOf(s) = "s1"
    THEN \E t \in Solo : before_request(t, min_bucket, min_sleep)
    ELSE PeerBeforeRequest(min_bucket, min_sleep)
SessionTimeout(s) ==
    IF ThrottleOf(s) = "s1" THEN \E t \in Solo \cup Callers : Timeout(t) ELSE PeerTimeout
SessionRecheck(s) ==
    IF ThrottleOf(s) = "s1" THEN \E t \in Solo : Recheck(t) ELSE PeerRecheck
SessionAfterResponse(s, throttle_status, cost) ==
    IF ThrottleOf(s) = "s1" THEN after_response(throttle_status, cost)
    ELSE PeerAfterResponse(throttle_status, cost)
\* execute(session, ...) with the first session
SessionExecute ==
    \E t \in Callers :
        \/ execute(t, None, 0)
        \/ ExecBeforeRequest(t)
        \/ ExecRecheck(t)
        \/ \E resp \in PairResponses : ExecPost(t, resp)
SessionStep(s) ==
    \/ \E mb \in MinBuckets : SessionBeforeRequest(s, mb, 0)
    \/ SessionTimeout(s)
    \/ SessionRecheck(s)
    \/ \E ts \in PairStatuses, c \in PairCosts : SessionAfterResponse(s, ts, c)
    \/ s = "s1" /\ SessionExecute

PairNext ==
    \/ Tick
    \/ \E s \in Sessions : SessionStep(s)

\* two sessions in one process, each used by its own threads
PairSpec == Init /\ [][PairNext]_vars

Next ==
    \/ Tick
    \/ \E v \in AssignedRates : SetRestoreRate(v)
    \/ \E t \in Solo, mb \in MinBuckets, ms \in MinSleeps : before_request(t, mb, ms)
    \/ \E t \in Solo : Timeout(t)
    \/ \E t \in Solo : Recheck(t)
    \/ \E ts \in DirectStatuses, c \in DirectCosts : after_response(ts, c)

\* one thread calling before_request, and the owner of the controller
Spec == Init /\ [][Next]_vars

WaitersNext ==
    \/ Tick
    \/ \E t \in Workers, mb \in MinBuckets, ms \in MinSleeps : before_request(t, mb, ms)
    \/ \E t \in Workers : Timeout(t)
    \/ \E t \in Workers : Recheck(t)
    \/ \E ts \in WaiterStatuses, c \in WaiterCosts : after_response(ts, c)

\* two threads calling before_request while a third reports throttle statuses;
\* a woken thread gets the lock again, since every holder releases it
LiveSpec ==
    /\ Init
    /\ [][WaitersNext]_vars
    /\ \A t \in Workers : WF_vars(Recheck(t))

\* throttle_status and cost arguments of the after_response calls made before
\* a caller blocks
QuietStatuses ==
    { Some([currentlyAvailable |-> 0]),
      Some([currentlyAvailable |-> -50]),
      Some([currentlyAvailable |-> 400]),
      Some([maximumAvailable |-> 25]) }
QuietCosts == {None, Some(450)}

\* after_response arrives only while no thread is inside before_request
QuietAfterResponse(throttle_status, cost) ==
    /\ \A t \in Threads : pc[t] \notin {"waiting", "woken"}
    /\ after_response(throttle_status, cost)

QuietNext ==
    \/ Tick
    \/ \E t \in Solo, mb \in MinBuckets, ms \in MinSleeps : before_request(t, mb, ms)
    \/ \E t \in Solo : Timeout(t)
    \/ \E t \in Solo : Recheck(t)
    \/ \E ts \in QuietStatuses, c \in QuietCosts : QuietAfterResponse(ts, c)

\* one thread calling before_request with no response arriving while it is
\* blocked: the clock advances, a wait whose timeout has elapsed returns, and
\* the woken thread gets the lock again
QuietSpec ==
    /\ Init
    /\ [][QuietNext]_vars
    /\ WF_vars(Tick)
    /\ \A t \in Solo : WF_vars(Timeout(t)) /\ WF_vars(Recheck(t))

\* ------------------------------------------------- the trace of an execute

Log == ex.log
CountEv(e) == Cardinality({i \in DOMAIN Log : Log[i].ev = e})
ResponseAt(i) == Log[i].ev = "response"
\* the attempt index (0-based) whose response is logged at position i
AttemptAt(i) == Cardinality({j \in 1..i : Log[j].ev = "response"}) - 1
HasStatus(resp) == ~resp.raises /\ resp.status_code # None
Got5xx(resp) == HasStatus(resp) /\ resp.status_code[1] >= 500
GotParsed(resp) == HasStatus(resp) /\ resp.status_code[1] = 200 /\ resp.json # None
GotSuccess(resp) == GotParsed(resp) /\ "errors" \notin DOMAIN resp.json[1]
GotErrors(resp) == GotParsed(resp) /\ "errors" \in DOMAIN resp.json[1]
Finished == \E t \in Callers : pc[t] = "done"
Responses5xxUpTo(n) ==
    \A i \in DOMAIN Log : (ResponseAt(i) /\ AttemptAt(i) < n) => Got5xx(Log[i].resp)
SleepsTaken ==
    LET IsSleep(e) == e.ev = "sleep"
        ss == SelectSeq(Log, IsSleep)
    IN  [i \in DOMAIN ss |-> ss[i].seconds]
BackoffSchedule == <<1, 2, 4, 8, 16, 32>>
SleepsBefore(i) == Cardinality({j \in 1..i : Log[j].ev = "sleep"})
SettlesBefore(i) == Cardinality({j \in 1..i : Log[j].ev = "after_response"})

\* ----------------------------------------------------------------- claims

\* C1: with two threads blocked in before_request on the same threshold, an
\* after_response that makes available equal to that threshold releases at
\* most one of them, as long as no further budget (time, another
\* after_response) has arrived.
C1_AtMostOneReleased ==
    Cardinality(settle.waiters) >= 2 =>
        Cardinality(settle.released \cap settle.waiters) <= 1

\* C2: a thread blocked in before_request when an after_response arrives does
\* not stay blocked while the budget covers its threshold: it returns, unless
\* the budget stops being sufficient first.
BudgetCovers(t) ==
    LET av  == IF now - last_update > 0
               THEN Min(max_available, available + (now - last_update) * restore_rate)
               ELSE available
    IN  IF total_calls # 0 /\ total_cost > args[t].min_bucket * total_calls
        THEN av * total_calls >= total_cost
        ELSE av >= args[t].min_bucket
Blocked(t) == pc[t] \in {"waiting", "woken"}
C2_EventuallyReleased ==
    \A t \in Workers :
        (Blocked(t) /\ t \in settle.notified /\ BudgetCovers(t))
            ~> (~Blocked(t) \/ ~BudgetCovers(t))
C2_Witness ==
    /\ settle.released = Workers
    /\ settle.waiters = {}
    /\ \A t \in Workers : pc[t] = "idle"

\* C3: an execute call with retries = N >= 0 calls transport.post at most N+1
\* times, and before_request as many times as it posts.
C3_AttemptsBounded ==
    ex.retries >= 0 =>
        /\ CountEv("post") <= ex.retries + 1
        /\ CountEv("before_request") <= ex.retries + 1
        /\ CountEv("admitted") = CountEv("before_request") => 
              CountEv("post") \in {CountEv("before_request") - 1, CountEv("before_request")}
        /\ Finished => CountEv("post") = CountEv("before_request")
C3_Witness ==
    /\ Finished
    /\ ex.retries = MaxRetries
    /\ CountEv("post") = ex.retries + 1
    /\ CountEv("before_request") = ex.retries + 1

\* C4: k <= retries consecutive 5xx responses followed by a successful 200:
\* exactly k sleeps of 1, 2, 4, ... seconds, k+1 posts, and the 200 body is
\* returned; a 5xx on the last allowed attempt raises with the status code
\* and no further sleep.
C4_BackoffThenSuccess ==
    \A i \in DOMAIN Log :
        (ResponseAt(i) /\ Responses5xxUpTo(AttemptAt(i))) =>
            LET k == AttemptAt(i)
                resp == Log[i].resp
            IN  /\ k <= ex.retries
                /\ GotSuccess(resp) =>
                      /\ SleepsTaken = SubSeq(BackoffSchedule, 1, k)
                      /\ CountEv("post") = k + 1
                      /\ ex.outcome = Some([kind |-> "return", data |-> resp.json[1]])
                /\ (Got5xx(resp) /\ k = ex.retries) =>
                      /\ SleepsTaken = SubSeq(BackoffSchedule, 1, k)
                      /\ CountEv("post") = k + 1
                      /\ ex.outcome # None
                      /\ ex.outcome[1].kind = "raise"
                      /\ ex.outcome[1].error.status_code = resp.status_code
C4_Witness ==
    /\ Finished
    /\ ex.outcome[1].kind = "return"
    /\ SleepsTaken = <<1, 2>>
    /\ CountEv("post") = 3

\* C5: a 200 response carrying an errors list is retried iff one of the errors
\* is a throttling signal and attempts remain; the retry goes straight back to
\* before_request (no sleep) and posts the same payload; otherwise execute
\* raises ShopifyGQLError with the truncated error list and posts no more.
ThrottlingSignal(errors) ==
    \E i \in DOMAIN errors :
        \/ /\ "extensions" \in DOMAIN errors[i]
           /\ "code" \in DOMAIN errors[i].extensions
           /\ errors[i].extensions.code = "THROTTLED"
        \/ /\ "message" \in DOMAIN errors[i]
           /\ errors[i].message.body = "Throttled"
C5_ErrorsRetriedIffThrottled ==
    \A i \in DOMAIN Log :
        (ResponseAt(i) /\ GotErrors(Log[i].resp)) =>
            LET errors == Log[i].resp.json[1]["errors"]
                retry == ThrottlingSignal(errors) /\ AttemptAt(i) < ex.retries
            IN  IF retry
                THEN /\ Len(Log) = i + 1 => \A t \in Callers : pc[t] = "loop"
                     /\ Len(Log) >= i + 2 => Log[i + 2].ev = "before_request"
                     /\ \A j \in DOMAIN Log :
                           (j > i /\ Log[j].ev = "post") => Log[j].payload = Log[i - 1].payload
                ELSE /\ Len(Log) = i + 2
                     /\ Finished
                     /\ Log[i + 2] = [ev |-> "raise",
                                      error |-> [message |-> [body |-> errors,
                                                              len |-> Min(ReprLen(errors), 300)],
                                                 status_code |-> None,
                                                 cause |-> None]]
C5_Witness ==
    /\ Finished
    /\ \E i \in DOMAIN Log :
          /\ ResponseAt(i) /\ GotErrors(Log[i].resp)
          /\ Log[i].resp.json[1]["errors"] = <<ErrLong, ErrThrottledMessage>>
          /\ \E j \in DOMAIN Log : j > i /\ Log[j].ev = "post"
    /\ ex.outcome[1].kind = "raise"
    /\ ex.outcome[1].error.message.len = 300

\* C6: every response with status 200 that parses is followed at once by
\* exactly one after_response carrying its throttle status, also when the
\* body carries errors; when execute raises, returns or retries, the
\* controller already holds the server's numbers.
ReportedStatus(resp) ==
    LET data == resp.json[1] IN
    IF "extensions" \in DOMAIN data /\ "cost" \in DOMAIN data["extensions"]
       /\ "throttleStatus" \in DOMAIN data["extensions"].cost
    THEN Some(data["extensions"].cost.throttleStatus) ELSE None
C6_SettledOnEveryParse ==
    /\ \A i \in DOMAIN Log :
          (ResponseAt(i) /\ GotParsed(Log[i].resp)) =>
              /\ Len(Log) >= i + 1
              /\ Log[i + 1].ev = "after_response"
              /\ Log[i + 1].throttle_status = ReportedStatus(Log[i].resp)
              /\ Len(Log) >= i + 2 => Log[i + 2].ev # "after_response"
              /\ (Len(Log) <= i + 2 /\ ReportedStatus(Log[i].resp) # None
                  /\ (Len(Log) = i + 2 => Log[i + 2].ev \in {"raise", "return"})) =>
                    /\ available = ReportedStatus(Log[i].resp)[1].currentlyAvailable
                    /\ max_available = ReportedStatus(Log[i].resp)[1].maximumAvailable
    /\ CountEv("after_response") =
          Cardinality({i \in DOMAIN Log : ResponseAt(i) /\ GotParsed(Log[i].resp)})
C6_Witness ==
    /\ Finished
    /\ ex.outcome[1].kind = "raise"
    /\ CountEv("after_response") = 2
    /\ GotErrors(Log[Len(Log) - 2].resp)
    /\ ~ThrottlingSignal(Log[Len(Log) - 2].resp.json[1]["errors"])
    /\ available = 0

\* C7: every transport.post comes right after a before_request of the same
\* attempt has returned.
C7_AdmitBeforeEveryPost ==
    \A i \in DOMAIN Log :
        Log[i].ev = "post" =>
            /\ i > 2
            /\ Log[i - 1].ev = "admitted"
            /\ \E j \in 1..(i - 1) :
                  /\ Log[j] = [ev |-> "before_request", min_bucket |-> SessionMinBucket,
                               min_sleep |-> SessionMinSleep]
                  /\ \A m \in (j + 1)..(i - 1) : Log[m].ev = "admitted"
C7_Witness ==
    /\ Finished
    /\ CountEv("post") = 3
    /\ CountEv("sleep") = 1
    /\ CountEv("after_response") >= 1

\* C8: a response without status code, with a status that is neither 200 nor
\* a retryable 5xx, or a 200 whose body does not parse, ends execute at once:
\* ShopifyGQLError (status code and body snippet when there is a status), no
\* further post, no after_response for it.
FatalResponse(resp, attempt) ==
    /\ ~resp.raises
    /\ \/ resp.status_code = None
       \/ /\ resp.status_code # None
          /\ resp.status_code[1] # 200
          /\ ~(resp.status_code[1] >= 500 /\ attempt < ex.retries)
       \/ /\ resp.status_code = Some(200)
          /\ resp.json = None
C8_FatalResponseEndsCall ==
    \A i \in DOMAIN Log :
        (ResponseAt(i) /\ FatalResponse(Log[i].resp, AttemptAt(i))) =>
            /\ Len(Log) = i + 1
            /\ Finished
            /\ Log[i + 1].ev = "raise"
            /\ ex.outcome = Some([kind |-> "raise", error |-> Log[i + 1].error])
            /\ Log[i + 1].error.status_code = Log[i].resp.status_code
            /\ Log[i].resp.status_code # None =>
                  Log[i + 1].error.message =
                      [body |-> Log[i].resp.text.body,
                       len |-> Min(Log[i].resp.text.len, 300)]
C8_Witness ==
    /\ Finished
    /\ ex.retries >= 1
    /\ CountEv("post") = 1
    /\ Log[Len(Log) - 1].ev = "response"
    /\ HasStatus(Log[Len(Log) - 1].resp)
    /\ Log[Len(Log) - 1].resp.status_code = Some(404)
    /\ Log[Len(Log)].error.message.len = 300

\* C9: restore_rate is positive in every state; a construction or assignment
\* with a value <= 0 raises ValueError and leaves the rate as it was; an
\* after_response reporting a positive restoreRate replaces the rate, one
\* reporting a value <= 0 leaves it as it was.
C9_RestoreRatePositive ==
    /\ [](restore_rate > 0)
    /\ []((lastOp.op = "construct" /\ lastOp.value <= 0) => ~constructed)
    /\ []((constructed /\ lastOp.value > 0) => restore_rate = lastOp.value)
    /\ [][lastOp'.value <= 0 => restore_rate' = restore_rate]_vars
C9_Witness ==
    /\ lastOp = [op |-> "after_response", value |-> 0]
    /\ restore_rate = 50

\* C10: after every completed before_request and after_response,
\* 0 <= available <= max_available.
C10_AvailableWithinBucket ==
    0 <= available /\ available <= max_available

\* C11: an after_response whose throttle status carries currentlyAvailable, a
\* positive restoreRate and maximumAvailable leaves available, restore_rate
\* and max_available equal to exactly those numbers, whatever they were
\* before, and last_update equal to the current time; so after several such
\* calls the controller shows the last one.
FullStatus(ts) ==
    /\ ts # None
    /\ {"currentlyAvailable", "restoreRate", "maximumAvailable"} \subseteq DOMAIN ts[1]
    /\ ts[1].restoreRate > 0
C11_ServerDataWins ==
    [][\A ts \in DirectStatuses, c \in DirectCosts :
          (FullStatus(ts) /\ after_response(ts, c)) =>
              /\ available' = ts[1].currentlyAvailable
              /\ restore_rate' = ts[1].restoreRate
              /\ max_available' = ts[1].maximumAvailable
              /\ last_update' = now']_vars
C11_Witness ==
    /\ available = 900 /\ restore_rate = 50 /\ max_available = 1000
    /\ last_update = now /\ now > 0
    /\ lastOp = [op |-> "after_response", value |-> 50]
    /\ total_calls = 1

\* the costs execute has reported to after_response, in order
CostsReported ==
    LET HasCost(e) == e.ev = "after_response" /\ e.cost # None
        cs == SelectSeq(Log, HasCost)
    IN  [i \in DOMAIN cs |-> cs[i].cost[1]]
LargestCost ==
    CHOOSE c \in {CostsReported[i] : i \in DOMAIN CostsReported} :
        \A i \in DOMAIN CostsReported : CostsReported[i] <= c
LastCost == CostsReported[Len(CostsReported)]

\* C12: the cost signal the controller retains after a sequence of
\* after_response calls with costs is the largest cost reported; a later
\* after_response with a smaller cost does not lower it.
C12_HighCostRetained ==
    CostsReported # <<>> => AverageCost.num = LargestCost * AverageCost.den

\* C13: at the moment before_request returns, available >= min_bucket,
\* available >= the average cost total_cost / total_calls, and available >=
\* the high cost retained (here: the cost of the last response, which the
\* bucket has not refilled past since it was reported).
C13_ReturnsAtTarget ==
    \A t \in Callers :
        pc[t] = "post" =>
            /\ available >= SessionMinBucket
            /\ available * AverageCost.den >= AverageCost.num
            /\ CostsReported # <<>> => available >= LastCost

\* C14: after_response is always able to run, and it leaves no thread
\* suspended in cond.wait: every waiter is woken.  A woken waiter that runs
\* again returns when the budget covers its threshold and blocks again when
\* it does not.
C14_BroadcastWake ==
    /\ [](constructed => ENABLED after_response(None, None))
    /\ [][\A ts \in WaiterStatuses, c \in WaiterCosts :
             after_response(ts, c) =>
                 \A t \in Workers : /\ pc[t] = "waiting" => pc'[t] = "woken"
                                    /\ pc'[t] # "waiting"]_vars
    /\ [][\A t \in Workers :
             Recheck(t) => pc'[t] = IF BudgetCovers(t) THEN "idle" ELSE "waiting"]_vars
C14_Witness ==
    /\ settle.released = {"w1"}
    /\ settle.notified = {"w2"}
    /\ pc["w1"] = "idle"
    /\ pc["w2"] = "woken"

\* C15: when transport.post raises, execute raises ShopifyGQLError at once,
\* on that attempt, with str(exc) as message and the exception as its cause:
\* no further post whatever retries remain, no sleep, no after_response.
C15_TransportErrorIsFatal ==
    \A i \in DOMAIN Log :
        (ResponseAt(i) /\ Log[i].resp.raises) =>
            /\ Len(Log) = i + 1
            /\ Finished
            /\ Log[i + 1] = [ev |-> "raise",
                             error |-> [message |-> [body |-> Log[i].resp.exc.text.body,
                                                     len |-> Min(Log[i].resp.exc.text.len, 300)],
                                        status_code |-> None,
                                        cause |-> <<Log[i].resp.exc>>]]
            /\ ex.outcome = Some([kind |-> "raise", error |-> Log[i + 1].error])
            /\ CountEv("post") = AttemptAt(i) + 1
            /\ CountEv("sleep") = SleepsBefore(i)
            /\ CountEv("after_response") = SettlesBefore(i)
C15_Witness ==
    /\ Finished
    /\ ex.retries = MaxRetries
    /\ CountEv("post") = 2
    /\ CountEv("sleep") = 1
    /\ Log[Len(Log) - 1].ev = "response"
    /\ Log[Len(Log) - 1].resp.raises
    /\ ex.outcome[1].error.cause = Some(Exc("ConnectionError", Text("boom", 4)))

\* ------------------------------------------- the trace of a cursor_pages

\* the connection object of a page as received
ConnOf(data) == data["data"]["products"]
IsPage(data) ==
    /\ "data" \in DOMAIN data
    /\ "json_null" \notin DOMAIN data["data"]
    /\ "products" \in DOMAIN data["data"]
    /\ DOMAIN ConnOf(data) \cap {"nodes", "edges"} # {}
NodesOf(data) ==
    IF ~IsPage(data) THEN <<>>
    ELSE IF "nodes" \in DOMAIN ConnOf(data) THEN ConnOf(data).nodes
    ELSE [i \in DOMAIN ConnOf(data).edges |-> ConnOf(data).edges[i].node]
RECURSIVE NodesUpTo(_)
NodesUpTo(n) == IF n = 0 THEN <<>> ELSE NodesUpTo(n - 1) \o NodesOf(pg.pages[n])
MorePages(data) ==
    /\ IsPage(data)
    /\ "pageInfo" \in DOMAIN ConnOf(data)
    /\ "hasNextPage" \in DOMAIN ConnOf(data).pageInfo
    /\ ConnOf(data).pageInfo.hasNextPage = TRUE
PageDone == \E t \in Pagers : pc[t] = "page_done"
PageStopped == PageDone /\ pg.outcome = Some([kind |-> "stop"])

\* C16: the items yielded are the nodes of the pages received, page after
\* page, each once; the first request carries after = null, every later one
\* the endCursor of the page received before it; no request follows a page
\* whose hasNextPage is not true, and the generator ends on that page.
C16_EveryNodeOnceInOrder ==
    /\ pg.items = NodesUpTo(Len(pg.pages))
    /\ \A k \in DOMAIN pg.calls :
          LET c == pg.calls[k] IN
          /\ c.page = 1 => c.after = None
          /\ c.page > 1 =>
                /\ c.page - 1 \in DOMAIN pg.pages
                /\ MorePages(pg.pages[c.page - 1])
                /\ c.after = <<ConnOf(pg.pages[c.page - 1]).pageInfo.endCursor>>
          /\ \A n \in 1..(c.page - 1) : MorePages(pg.pages[n])
    /\ \A t \in Pagers : \A i \in DOMAIN Log :
          (pc[t] # "idle" /\ Log[i].ev = "post") =>
              Log[i].payload[1].variables.after = pg.calls[Len(pg.calls)].after
    /\ PageStopped =>
          /\ pg.pages # <<>>
          /\ ~MorePages(pg.pages[Len(pg.pages)])
          /\ Cardinality({pg.items[i] : i \in DOMAIN pg.items}) = Len(pg.items)
C16_Witness ==
    /\ PageStopped
    /\ pg.items = <<"P1", "P2", "P3", "P4">>
    /\ Len(pg.calls) = 3
    /\ pg.calls[3].after = <<"cursor2">>

\* C17: a page whose execute raised ShopifyGQLError from a ConnectionError or
\* a Timeout is asked again with the same cursor after a sleep of 2^attempt
\* seconds, at most page_retries + 1 times per page; the items yielded have
\* no duplicate and no gap; any other ShopifyGQLError, and a transport
\* failure on the last attempt of a page, reaches the caller.
RetryCalls ==
    LET IsRetry(c) == c.attempt > 0 IN SelectSeq(pg.calls, IsRetry)
TransportFailure(error) ==
    error.cause # None /\ error.cause[1].type \in {"ConnectionError", "Timeout"}
C17_TransientPageRetry ==
    /\ \A k \in DOMAIN pg.calls :
          /\ pg.calls[k].attempt <= pg.page_retries
          /\ pg.calls[k].attempt >= 0
          /\ k > 1 =>
                IF pg.calls[k].page = pg.calls[k - 1].page
                THEN /\ pg.calls[k].attempt = pg.calls[k - 1].attempt + 1
                     /\ pg.calls[k].after = pg.calls[k - 1].after
                ELSE /\ pg.calls[k].attempt = 0
                     /\ pg.calls[k].page = pg.calls[k - 1].page + 1
    /\ \A i \in DOMAIN RetryCalls : pg.sleeps[i] = Pow2(RetryCalls[i].attempt - 1)
    /\ Len(pg.sleeps) \in {Len(RetryCalls), Len(RetryCalls) + 1}
    /\ \A t \in Pagers :
          /\ pc[t] = "page_sleep" =>
                /\ ex.outcome # None /\ ex.outcome[1].kind = "raise"
                /\ TransportFailure(ex.outcome[1].error)
                /\ pg.attempt < pg.page_retries
                /\ Len(pg.sleeps) = Len(RetryCalls) + 1
                /\ pg.sleeps[Len(pg.sleeps)] = Pow2(pg.attempt)
          /\ (pc[t] = "page_done" /\ ex.outcome # None /\ ex.outcome[1].kind = "raise") =>
                /\ pg.outcome = Some([kind |-> "raise", error |-> ex.outcome[1].error])
                /\ ~TransportFailure(ex.outcome[1].error) \/ pg.attempt = pg.page_retries
                /\ Len(pg.sleeps) = Len(RetryCalls)
    /\ \E n \in 0..4 : pg.items = SubSeq(<<"P1", "P2", "P3", "P4">>, 1, n)
C17_Witness ==
    /\ PageStopped
    /\ pg.items = <<"P1", "P2", "P3", "P4">>
    /\ pg.sleeps = <<1, 1, 2>>
    /\ Len(pg.calls) = 6
    /\ pg.calls[4].after = <<"cursor1">>

\* what session s sees of its controller: the bucket, the cost totals, and
\* where the threads using it are
View(s) ==
    IF ThrottleOf(s) = "s1"
    THEN [available |-> available, restore_rate |-> restore_rate,
          max_available |-> max_available, total_calls |-> total_calls,
          total_cost |-> total_cost, threads |-> [t \in Solo \cup Callers |-> pc[t]]]
    ELSE [available |-> peer.available, restore_rate |-> peer.restore_rate,
          max_available |-> peer.max_available, total_calls |-> peer.total_calls,
          total_cost |-> peer.total_cost, threads |-> peer.pc]

\* C18: two sessions created without an explicit throttle hold distinct
\* controllers, and a step of execute, before_request or after_response on
\* one session leaves the other session's available, restore_rate,
\* max_available, total_calls and total_cost as they were, and its threads
\* where they were: none is woken, none is blocked.
C18_SessionsIsolated ==
    /\ [](ThrottleOf("s1") # ThrottleOf("s2"))
    /\ [][\A s \in Sessions :
             SessionStep(s) => \A o \in Sessions \ {s} : View(o)' = View(o)]_vars
C18_Witness ==
    /\ pc["x1"] = "done"
    /\ available = 0 /\ restore_rate = 50 /\ total_cost = 450
    /\ peer.available = 1000 /\ peer.restore_rate = 100 /\ peer.total_cost = 0
    /\ peer.pc = "idle" /\ peer.min_bucket = 50

\* C19: after_response changes available only when the status carries
\* currentlyAvailable, restore_rate only when it carries a positive
\* restoreRate, max_available only when it carries maximumAvailable, and the
\* call totals only when a cost is given; without a throttle status the
\* bucket and last_update stay as they were.  (A step is matched against the
\* cost first, then against the whole operation.)
Absent(ts, k) == ts = None \/ k \notin DOMAIN ts[1]
ReportsCost(c) == total_cost' = total_cost + (IF c = None THEN 0 ELSE c[1])
C19_AbsentFieldsKept ==
    [][\A c \in DirectCosts : ReportsCost(c) => \A ts \in DirectStatuses :
          after_response(ts, c) =>
              /\ Absent(ts, "currentlyAvailable") => available' = available
              /\ (Absent(ts, "restoreRate") \/ ts[1].restoreRate <= 0) =>
                    restore_rate' = restore_rate
              /\ Absent(ts, "maximumAvailable") => max_available' = max_available
              /\ c = None => (total_calls' = total_calls /\ total_cost' = total_cost)
              /\ c # None => (total_calls' = total_calls + 1 /\ total_cost' = total_cost + c[1])
              /\ ts = None =>
                    UNCHANGED <<available, restore_rate, max_available, last_update>>]_vars
C19_Witness ==
    /\ max_available = 500
    /\ available = 0
    /\ restore_rate = 50
    /\ total_cost = 50
    /\ lastOp.op = "setattr"

CostBlock(resp) ==
    LET data == resp.json[1] IN
    IF "extensions" \in DOMAIN data /\ "cost" \in DOMAIN data["extensions"]
    THEN data["extensions"].cost ELSE EmptyDict
PreferredCost(cost_info) ==
    IF "actualQueryCost" \in DOMAIN cost_info THEN Some(cost_info.actualQueryCost)
    ELSE IF "requestedQueryCost" \in DOMAIN cost_info THEN Some(cost_info.requestedQueryCost)
    ELSE None
CostsPassed == {i \in DOMAIN Log : Log[i].ev = "after_response" /\ Log[i].cost # None}
C22_ActualCostPreferred ==
    /\ \A i \in DOMAIN Log :
          (ResponseAt(i) /\ GotParsed(Log[i].resp)) =>
              Log[i + 1].cost = PreferredCost(CostBlock(Log[i].resp))
    /\ total_calls = Cardinality(CostsPassed)

\* C24: an execute call with retries >= 0 ends inside its for loop: the loop
\* is never left with the attempts used up, "Max retries exceeded" is never
\* raised, and a finished call has returned the parsed body of its last
\* response or raised the error made for that response.
MaxRetriesExceeded(e) == e.ev = "raise" /\ e.error.message.body = "Max retries exceeded"
LastResponse == CHOOSE i \in DOMAIN Log : ResponseAt(i) /\ \A j \in DOMAIN Log : ResponseAt(j) => j <= i
C24_EndsInsideLoop ==
    ex.retries >= 0 =>
        /\ \A t \in Callers : pc[t] = "loop" => ex.attempt <= ex.retries
        /\ \A i \in DOMAIN Log : ~MaxRetriesExceeded(Log[i])
        /\ Finished =>
              /\ CountEv("response") >= 1
              /\ ex.outcome # None
              /\ Log[Len(Log)].ev \in {"return", "raise"}
              /\ LastResponse \in {Len(Log) - 1, Len(Log) - 2}
              /\ LastResponse = Len(Log) - 2 => Log[Len(Log) - 1].ev = "after_response"
              /\ ex.outcome[1].kind = "return" =>
                    /\ GotSuccess(Log[LastResponse].resp)
                    /\ ex.outcome[1].data = Log[LastResponse].resp.json[1]
              /\ ex.outcome[1].kind = "raise" =>
                    /\ ~GotSuccess(Log[LastResponse].resp)
                    /\ Log[Len(Log)].error = ex.outcome[1].error
C24_Witness ==
    /\ Finished
    /\ ex.retries = MaxRetries
    /\ CountEv("post") = ex.retries + 1
    /\ CountEv("sleep") = 1
    /\ ex.outcome[1].kind = "raise"
    /\ GotErrors(Log[LastResponse].resp)
    /\ ThrottlingSignal(Log[LastResponse].resp.json[1]["errors"])

\* C21: when before_request has to wait, it waits with timeout
\* max(minSleep, (target - available) / restore_rate), where minSleep is the
\* min_sleep argument, or 1 when that is negative; the duration is never
\* negative; the wait does not time out before it; and a thread leaves the
\* wait only by being woken, after which it refills and returns only if the
\* refilled budget covers its threshold.
Threshold(mb) ==
    IF total_calls # 0 /\ total_cost > mb * total_calls
    THEN [num |-> total_cost, den |-> total_calls]
    ELSE [num |-> mb, den |-> 1]
\* waits'[t] is a wait started now with minimum ms for threshold Threshold(mb):
\* its second component num/den equals (target - available') / restore_rate
WaitsFor(t, mb, ms) ==
    /\ pc'[t] = "waiting"
    /\ waits'[t].since = now
    /\ waits'[t].min_sleep = ms
    /\ waits'[t].den > 0
    /\ waits'[t].num * Threshold(mb).den * restore_rate =
          (Threshold(mb).num - available' * Threshold(mb).den) * waits'[t].den
C21_WaitDuration ==
    /\ [][\A t \in Solo, mb \in MinBuckets, ms \in MinSleeps :
             (before_request(t, mb, ms) /\ pc'[t] # "idle") =>
                 WaitsFor(t, mb, IF ms < 0 THEN 1 ELSE ms)]_vars
    /\ [][\A t \in Solo :
             (Recheck(t) /\ pc'[t] # "idle") =>
                 WaitsFor(t, args[t].min_bucket, args[t].min_sleep)]_vars
    /\ [](\A t \in Solo : pc[t] = "waiting" =>
             /\ waits[t].min_sleep >= 0
             /\ waits[t].num > 0
             /\ waits[t].den > 0)
    /\ [][\A t \in Solo : Timeout(t) =>
             /\ now - waits[t].since >= waits[t].min_sleep
             /\ (now - waits[t].since) * waits[t].den >= waits[t].num]_vars
    /\ [][\A t \in Solo :
             /\ pc[t] = "waiting" => pc'[t] \in {"waiting", "woken"}
             /\ (pc[t] = "woken" /\ pc'[t] # "woken") =>
                   /\ available' = IF now - last_update > 0
                                   THEN Min(max_available,
                                            available + (now - last_update) * restore_rate)
                                   ELSE available
                   /\ pc'[t] = IF BudgetCovers(t) THEN "idle" ELSE "waiting"]_vars
C21_Witness ==
    /\ pc["w1"] = "waiting"
    /\ waits["w1"] = [since |-> 1, min_sleep |-> 1, num |-> 50, den |-> 100]
    /\ available = 0
    /\ now = 2

\* C23: a thread waiting in before_request whose threshold
\* max(min_bucket, total_cost / total_calls) is at most max_available returns
\* once its timeout has elapsed, with no after_response arriving (stated for
\* the waits whose timeout ends within the clock's range); before_request is
\* always able to run and restore_rate, by which it divides, is positive.
ThresholdReachable(t) ==
    Threshold(args[t].min_bucket).num <= max_available * Threshold(args[t].min_bucket).den
EndsInRange(t) ==
    /\ waits[t].since + waits[t].min_sleep <= MaxTime
    /\ (MaxTime - waits[t].since) * waits[t].den >= waits[t].num
C23_EventuallyReturns ==
    /\ \A t \in Solo :
          (pc[t] = "waiting" /\ ThresholdReachable(t) /\ EndsInRange(t)) ~> pc[t] = "idle"
    /\ [](\A t \in Solo, mb \in MinBuckets, ms \in MinSleeps :
             (constructed /\ pc[t] = "idle") => ENABLED before_request(t, mb, ms))
    /\ [](restore_rate > 0)
C23_Witness ==
    /\ pc["w1"] = "woken"
    /\ TimeoutDue("w1")
    /\ total_cost = 450
    /\ available = 400
    /\ waits["w1"].num = 50
    /\ ThresholdReachable("w1")

TypeOK ==
    /\ constructed \in BOOLEAN
    /\ now >= 0
    /\ pc \in [Threads -> {"idle", "waiting", "woken", "loop", "post", "sleep", "done",
                        "page_try", "page_sleep", "page_done"}]
====
